---- MODULE Spec2Model ----
(***************************************************************************)
(* Response-lifecycle guards of Qolaba-Proxy: ResponseState, SafeSSEWriter *)
(* and withStreamingErrorBoundary (src/src/utils/responseState.js) and     *)
(* ResponseManager (src/src/utils/responseManager.js), over the mock       *)
(* transport of src/tests/test-utils.js.                                   *)
(*                                                                         *)
(* JavaScript runs one synchronous segment at a time; an async function    *)
(* runs synchronously up to its first await and its continuation is a      *)
(* microtask.  Every action below is one synchronous segment; the          *)
(* intercepted end of ResponseManager is cut where it hands control to a   *)
(* registered callback.                                                    *)
(*                                                                         *)
(* Spec         any calls of the ResponseState entry points                *)
(* FairSpec     the termination protocol, with the microtask queue drained *)
(* SpecManager  a ResponseManager over the transport                       *)
(* SpecTimeout  a streaming request racing with its timeout                *)
(* SpecSSE      one SafeSSEWriter.writeEvent on a response at any stage    *)
(* SpecRunner   the test runner's command 'all' (src/unnamed/part_000)     *)
(* SpecStacked  a ResponseState and a ResponseManager on one transport     *)
(***************************************************************************)
EXTENDS Integers, Sequences, FiniteSets, TLC

\* ------------------------------------------------------------------ bounds
MaxOps == 3          \* synchronous entry-point invocations per behaviour
MaxCTCalls == 1      \* coordinatedTermination calls by timers and listeners
MaxCallbacks == 3    \* callbacks registered with ResponseManager.onEnd
MaxEndCalls == 2     \* invocations of the ResponseManager's intercepted end
MaxHeadWrites == 2   \* header writes that reach the transport under a ResponseManager
NumEvents == 3       \* SSE events the streaming request writes before it ends
NumSuites == 5       \* the test suites TestRunner registers

Reasons == {"timeout"}
AllReasons == Reasons \cup {"error_boundary"}
DataChunks == {"x"}
EndArgs == {"undefined"}
Statuses == {200}
EventTypes == {"null", "message"}     \* "null" stands for JavaScript null
Faults == {"none", "before_end", "after_mark"}
ErrorHandlers == {"absent", "throws", "async"}
Settlements == {"resolves", "rejects"}
Payloads == {<<>>}
HandlerError == "handler_error"
\* What the handler's promise resolves with.
HandlerResults == {"handler_result", "undefined"}
ManagedEndArgs == {"undefined", "bye"}
\* Payloads and event types given to SafeSSEWriter.writeEvent: objects of at
\* most one string property whose text needs no JSON escape; "null" is the
\* parameter's default, "" an empty event type.
SSEPayloads == {<<>>, <<"id", "1">>, <<"text", "hi">>, <<"delta", "">>}
SSEEventTypes == {"null", "", "message", "error"}
ResponseStages == {"fresh", "headers", "ended", "destroyed"}
\* Which guard was attached to the transport first, when both are.
AttachmentOrders == {"state_first", "manager_first"}
\* The callbacks the middleware registered when both guards are attached.
StackedRegistries == {<<>>, <<1>>, <<1, 2>>}
\* What a callback does when both guards are attached.
StackedBehaviours == {"returns", "throws", "ends"}
\* How a suite's runAllTests() comes back: true, false, or by throwing.
SuiteOutcomes == {"passed", "failed", "threw"}
\* What a callback registered with onEnd does when the intercepted end runs it.
CallbackBehaviours == {"returns", "throws", "ends", "registers", "writesHead"}

VARIABLES
  rs,          \* the fields of the ResponseState instance
  res,         \* the transport, with the probes that count what reaches it
  microtasks,  \* FIFO of the continuations waiting behind an await
  bpc,         \* where withStreamingErrorBoundary stands
  bctx,        \* what withStreamingErrorBoundary saw and gave back
  obs,         \* history: what has been called and how it came back
  rm,          \* the ResponseManager instance and its intercepted end in progress
  scn          \* the streaming request of the timeout scenario

vars == <<rs, res, microtasks, bpc, bctx, obs, rm, scn>>

\* ------------------------------------------------ transport (mock response)
\* A call context: the ResponseState fields, the transport, and the result of
\* the call in progress (return value, exception in flight).
Ctx(r, t) == [rs |-> r, res |-> t, ret |-> "undefined", threw |-> "none", performed |-> 0]

Return(c, v) == [c EXCEPT !.ret = v, !.threw = "none"]

Throw(c, e) == [c EXCEPT !.ret = "undefined", !.threw = e]

\* res.writeHead of the transport: throws once headers were sent.
OriginalWriteHead(c, status) ==
  LET d == [c EXCEPT !.res.writeHeadCalls = @ + 1]
  IN IF d.res.headersSent
       THEN Throw(d, "Cannot set headers after they are sent to the client")
       ELSE Return([d EXCEPT !.res.headersSent = TRUE, !.res.statusCode = status], "res")

\* The transport's calls are counted, and the last argument of each kept, as
\* the onHeaderWrite / onWrite / onEnd probes of the mock see them.
\* res.write of the transport; ok is what a writable transport answers
\* (true in the mock; a real socket answers false under back-pressure).
OriginalWrite(c, chunk, ok) ==
  LET d == [c EXCEPT !.res.writeCalls = @ + 1, !.res.lastWrite = chunk]
  IN IF d.res.writableEnded
       THEN Return(d, "false")
       ELSE Return(d, IF ok THEN "true" ELSE "false")

\* res.end of the transport.
OriginalEnd(c, chunk) ==
  LET d == [c EXCEPT !.res.endCalls = @ + 1, !.res.lastEnd = chunk]
  IN IF d.res.writableEnded
       THEN Return(d, "res")
       ELSE Return([d EXCEPT !.res.writableEnded = TRUE], "res")

\* res.socket.destroy(); the socket's own failure is caught by destroy().
SocketDestroy(c) == [c EXCEPT !.res.socketDestroyCalls = @ + 1]

\* ------------------------------------------------ ResponseState._overrideMethods
CanWrite(c) == ~c.rs.isEnded /\ ~c.rs.isDestroyed

CanWriteHeaders(c) == ~c.rs.isHeadersSent /\ ~c.rs.isEnded /\ ~c.rs.isDestroyed

\* (mutation) res.writeHead that forgets to set isHeadersSent
ResWriteHead_NoFlag(c, status) ==
  IF c.rs.isHeadersSent
    THEN Return(c, "false")
    ELSE OriginalWriteHead(c, status)

ResWriteHead(c, status) ==
  IF c.rs.isHeadersSent
    THEN Return(c, "false")
    ELSE OriginalWriteHead([c EXCEPT !.rs.isHeadersSent = TRUE], status)

\* (mutation) res.write that only refuses a destroyed response
ResWrite_EndedUnchecked(c, chunk, ok) ==
  IF c.rs.isDestroyed THEN Return(c, "false")
  ELSE OriginalWrite(c, chunk, ok)

ResWrite(c, chunk, ok) ==
  IF c.rs.isEnded THEN Return(c, "false")
  ELSE IF c.rs.isDestroyed THEN Return(c, "false")
  ELSE OriginalWrite(c, chunk, ok)

\* (mutation) ending without completing the stream
MarkEnded_StreamLeftOpen(c) == [c EXCEPT !.rs.isEnded = TRUE]

MarkEnded(c) ==
  [c EXCEPT !.rs.isEnded = TRUE,
            !.rs.streamingCompleted = IF c.rs.isStreaming /\ ~c.rs.streamingCompleted THEN TRUE ELSE @]

\* (mutation) res.end without the isEnded check
ResEnd_Unguarded(c, chunk) == OriginalEnd(MarkEnded(c), chunk)

ResEnd(c, chunk) ==
  IF c.rs.isEnded
    THEN Return(c, "false")
    ELSE OriginalEnd(MarkEnded(c), chunk)

ResSafeWriteHead(c, status) ==
  IF ~c.rs.isHeadersSent /\ ~c.rs.isEnded
    THEN OriginalWriteHead(c, status)
    ELSE Return(c, "false")

ResSafeWrite(c, chunk, ok) ==
  IF ~c.rs.isEnded /\ ~c.rs.isDestroyed
    THEN OriginalWrite(c, chunk, ok)
    ELSE Return(c, "false")

ResSafeEnd(c, chunk) ==
  IF ~c.rs.isEnded /\ ~c.rs.isDestroyed
    THEN OriginalEnd(MarkEnded(c), chunk)
    ELSE Return(c, "false")

MarkStreamingStarted(c) == Return([c EXCEPT !.rs.isStreaming = TRUE], "undefined")

MarkStreamingCompleted(c) == Return([c EXCEPT !.rs.streamingCompleted = TRUE], "undefined")

\* ------------------------------------------------ ResponseState methods
\* try { ... } catch { return false }
SafeWriteHeaders(c, status) ==
  IF CanWriteHeaders(c)
    THEN LET d == ResWriteHead(c, status)
         IN IF d.threw # "none" THEN Return(d, "false") ELSE Return(d, "true")
    ELSE Return(c, "false")

SafeWrite(c, chunk, ok) ==
  IF CanWrite(c)
    THEN LET d == ResWrite(c, chunk, ok)
         IN IF d.threw # "none" THEN Return(d, "false") ELSE d
    ELSE Return(c, "false")

SafeEnd(c, chunk) ==
  IF CanWrite(c)
    THEN LET d == ResEnd(c, chunk)
         IN IF d.threw # "none" THEN Return(d, "false") ELSE Return(d, "true")
    ELSE Return(c, "false")

\* (mutation) destroy() that leaves isEnded alone
Destroy_NotEnded(c) ==
  LET d == [c EXCEPT !.rs.isDestroyed = TRUE]
  IN Return(IF d.res.socket THEN SocketDestroy(d) ELSE d, "undefined")

\* (mutation) destroy() that sets the flags only when there is a socket
Destroy_FlagsWithSocket(c) ==
  IF c.res.socket
    THEN Return(SocketDestroy([c EXCEPT !.rs.isDestroyed = TRUE, !.rs.isEnded = TRUE]), "undefined")
    ELSE Return(c, "undefined")

\* (mutation) destroy that also forgets that the headers were sent
Destroy_HeadersForgotten(c) ==
  LET d == [c EXCEPT !.rs.isDestroyed = TRUE, !.rs.isEnded = TRUE, !.rs.isHeadersSent = FALSE]
  IN Return(IF d.res.socket THEN SocketDestroy(d) ELSE d, "undefined")

Destroy(c) ==
  LET d == [c EXCEPT !.rs.isDestroyed = TRUE, !.rs.isEnded = TRUE]
  IN Return(IF d.res.socket THEN SocketDestroy(d) ELSE d, "undefined")

CanTerminate(c) == ~c.rs.isTerminationInProgress /\ ~c.rs.isDestroyed

\* (mutation) _performTermination that ends the transport itself, unasked
PerformTermination_EndsAnyway(c, fault) ==
  LET a == [c EXCEPT !.performed = @ + 1]
  IN IF fault = "before_end"
       THEN Throw(a, "termination_failure")
       ELSE Return(OriginalEnd(MarkEnded(a), "undefined"), "undefined")

\* _performTermination has no await: it runs to completion inside the caller's
\* synchronous segment and its promise is settled when it returns.  fault is
\* an exception raised inside its try block (before safeEnd is reached, or
\* after streaming was marked completed); the catch block re-throws it.
\* (mutation) _performTermination with its end condition inverted
PerformTermination_Inverted(c, fault) ==
  LET a == [c EXCEPT !.performed = @ + 1]
      b == IF fault = "before_end" THEN Throw(a, "termination_failure")
           ELSE IF a.rs.isEnded /\ CanWrite(a) THEN SafeEnd(a, "undefined")
           ELSE a
      m == b.threw = "none" /\ b.rs.isStreaming /\ ~b.rs.streamingCompleted
      d == IF m THEN [b EXCEPT !.rs.streamingCompleted = TRUE] ELSE b
  IN IF d.threw # "none" THEN d
     ELSE IF m /\ fault = "after_mark" THEN Throw(d, "termination_failure")
     ELSE Return(d, "undefined")

PerformTermination(c, fault) ==
  LET a == [c EXCEPT !.performed = @ + 1]
      b == IF fault = "before_end" THEN Throw(a, "termination_failure")
           ELSE IF ~a.rs.isEnded /\ CanWrite(a) THEN SafeEnd(a, "undefined")
           ELSE a
      m == b.threw = "none" /\ b.rs.isStreaming /\ ~b.rs.streamingCompleted
      d == IF m THEN [b EXCEPT !.rs.streamingCompleted = TRUE] ELSE b
  IN IF d.threw # "none" THEN d
     ELSE IF m /\ fault = "after_mark" THEN Throw(d, "termination_failure")
     ELSE Return(d, "undefined")

\* ------------------------------------------------ SafeSSEWriter
JSONStringify(p) ==
  IF p = <<>> THEN "{}" ELSE "{\"" \o p[1] \o "\":\"" \o p[2] \o "\"}"

Truthy(s) == s # "null" /\ s # ""

\* (mutation) writeEvent that closes the frame with a single newline
WriteEvent_OneNewline(c, data, eventType, ok) ==
  IF ~CanWrite(c)
    THEN Return(c, "false")
    ELSE LET sseData == "data: " \o JSONStringify(data) \o "\n"
         IN SafeWrite(c, IF Truthy(eventType) THEN "event: " \o eventType \o "\n" \o sseData ELSE sseData, ok)

WriteEvent(c, data, eventType, ok) ==
  IF ~CanWrite(c)
    THEN Return(c, "false")
    ELSE LET sseData == "data: " \o JSONStringify(data) \o "\n\n"
         IN SafeWrite(c, IF Truthy(eventType) THEN "event: " \o eventType \o "\n" \o sseData ELSE sseData, ok)

WriteDone(c, ok) ==
  IF ~CanWrite(c)
    THEN Return(c, "false")
    ELSE SafeWrite(c, "data: [DONE]\\n\\n", ok)

\* ------------------------------------------------ coordinatedTermination
\* The synchronous segment of coordinatedTermination, up to its await:
\* ret tells whether the call joined the episode in progress ("waiting") or
\* started one ("driving"); the awaited terminationLock is already settled.
\* (mutation) coordinatedTermination without the in-progress check
CoordinatedTermination_NoJoin(c, reason, fault) ==
  LET a == [c EXCEPT !.rs.isTerminationInProgress = TRUE,
                     !.rs.terminationReason = reason]
      d == PerformTermination(a, fault)
  IN Return([d EXCEPT !.rs.terminationLock =
                        IF d.threw = "none" THEN "resolved" ELSE "rejected"],
            "driving")

\* (mutation) a joining call that records its own reason
CoordinatedTermination_JoinerWrites(c, reason, fault) ==
  IF c.rs.isTerminationInProgress
    THEN Return([c EXCEPT !.rs.terminationReason = reason], "waiting")
    ELSE LET a == [c EXCEPT !.rs.isTerminationInProgress = TRUE,
                            !.rs.terminationReason = reason]
             d == PerformTermination(a, fault)
         IN Return([d EXCEPT !.rs.terminationLock =
                               IF d.threw = "none" THEN "resolved" ELSE "rejected"],
                   "driving")

CoordinatedTermination(c, reason, fault) ==
  IF c.rs.isTerminationInProgress
    THEN Return(c, "waiting")
    ELSE LET a == [c EXCEPT !.rs.isTerminationInProgress = TRUE,
                            !.rs.terminationReason = reason]
             d == PerformTermination(a, fault)
         IN Return([d EXCEPT !.rs.terminationLock =
                               IF d.threw = "none" THEN "resolved" ELSE "rejected"],
                   "driving")

\* The continuation after the await: the driver swallows a failure and clears
\* the flag in finally; a waiter returns, or throws what the lock rejected with.
\* (mutation) the driver clears the flag after the await, not in a finally
CoordinatedTerminationResume_NoFinally(r, e) ==
  IF e.pc = "driving"
    THEN [rs |-> IF e.awaited = "rejected" THEN r ELSE [r EXCEPT !.isTerminationInProgress = FALSE],
          outcome |-> "resolved"]
    ELSE [rs |-> r, outcome |-> IF e.awaited = "rejected" THEN "rejected" ELSE "resolved"]

CoordinatedTerminationResume(r, e) ==
  IF e.pc = "driving"
    THEN [rs |-> [r EXCEPT !.isTerminationInProgress = FALSE], outcome |-> "resolved"]
    ELSE [rs |-> r, outcome |-> IF e.awaited = "rejected" THEN "rejected" ELSE "resolved"]

\* ------------------------------------------------ withStreamingErrorBoundary
ErrorResponse ==
  "{\"error\":{\"message\":\"Internal streaming error\",\"type\":\"api_error\",\"code\":\"streaming_error\"}}"

\* The best-effort error response after the termination step.
\* (mutation) the error response sent without asking canWriteHeaders()
SendErrorResponse_Unchecked(c, ok) ==
  SafeEnd(SafeWrite(SafeWriteHeaders(c, 500), ErrorResponse, ok), "undefined")

SendErrorResponse(c, ok) ==
  IF CanWriteHeaders(c)
    THEN SafeEnd(SafeWrite(SafeWriteHeaders(c, 500), ErrorResponse, ok), "undefined")
    ELSE c

\* ------------------------------------------------ ResponseManager
\* A call context of the ResponseManager: its fields, the transport, and the
\* result of the call in progress.
RMCtx(m, t) == [rm |-> m, res |-> t, ret |-> "undefined", threw |-> "none"]

\* The fields after the constructor; pc and i are the position of the
\* intercepted end in its callback loop, chunk its argument.  runLog,
\* endInvocations, skipped, forwards, thrown, logged, raised, atEnd and
\* nestedEnds (invocations made from inside a callback) record what the
\* intercepted end did.
NewResponseManager ==
  [pc |-> "idle", isEnded |-> FALSE, endCallbacks |-> <<>>, headersSent |-> FALSE,
   i |-> 0, chunk |-> "undefined",
   runLog |-> <<>>, endInvocations |-> 0, skipped |-> 0, forwards |-> 0,
   thrown |-> 0, logged |-> 0, raised |-> "none", atEnd |-> 0, nestedEnds |-> 0]

\* (mutation) areHeadersSent that trusts the manager's own observation only
AreHeadersSent_OwnOnly(c) == c.rm.headersSent

AreHeadersSent(c) == c.rm.headersSent \/ c.res.headersSent

HasEnded(c) == c.rm.isEnded

\* The writeHead shim of _trackHeaders.
ManagedWriteHead(c, status) == OriginalWriteHead([c EXCEPT !.rm.headersSent = TRUE], status)

OnEnd(c, callback) == Return([c EXCEPT !.rm.endCallbacks = Append(@, callback)], "undefined")

\* The intercepted end up to its callback loop: skipped when already ended,
\* otherwise the flag is set and the loop starts at the first callback.
\* (mutation) the intercepted end without its isEnded check
ManagedEndEnter_Unguarded(c, chunk) ==
  LET a == [c EXCEPT !.rm.endInvocations = @ + 1]
  IN Return([a EXCEPT !.rm.isEnded = TRUE, !.rm.pc = "callbacks", !.rm.i = 1,
                      !.rm.chunk = chunk, !.rm.atEnd = Len(a.rm.endCallbacks)],
            "entered")

\* (mutation) the intercepted end that marks the response ended only when skipping
ManagedEndEnter_FlagLate(c, chunk) ==
  LET a == [c EXCEPT !.rm.endInvocations = @ + 1]
  IN IF a.rm.isEnded \/ a.rm.pc # "idle"
       THEN Return([a EXCEPT !.rm.skipped = @ + 1, !.rm.isEnded = TRUE], "undefined")
       ELSE Return([a EXCEPT !.rm.pc = "callbacks", !.rm.i = 1,
                             !.rm.chunk = chunk, !.rm.atEnd = Len(a.rm.endCallbacks)],
                   "entered")

ManagedEndEnter(c, chunk) ==
  LET a == [c EXCEPT !.rm.endInvocations = @ + 1]
  IN IF a.rm.isEnded
       THEN Return([a EXCEPT !.rm.skipped = @ + 1], "undefined")
       ELSE Return([a EXCEPT !.rm.isEnded = TRUE, !.rm.pc = "callbacks", !.rm.i = 1,
                             !.rm.chunk = chunk, !.rm.atEnd = Len(a.rm.endCallbacks)],
                   "entered")

\* callback(): the code of the callback itself, which may use the response.
RunCallback(c, b) ==
  CASE b = "returns" -> Return(c, "undefined")
    [] b = "throws" -> Throw(c, "callback_error")
    [] b = "ends" -> Return(ManagedEndEnter([c EXCEPT !.rm.nestedEnds = @ + 1], "undefined"),
                            "undefined")
    [] b = "registers" -> OnEnd(c, Len(c.rm.endCallbacks) + 1)
    [] b = "writesHead" -> ManagedWriteHead(c, 200)

\* try { callback() } catch: a failure is logged, and re-thrown out of end
\* when no headers were sent; otherwise the loop goes on to the next callback.
\* (mutation) an abort that clears isEnded, so that a later end can go through
ManagedEndAfterCallback_Reopens(c) ==
  IF c.threw = "none"
    THEN Return([c EXCEPT !.rm.i = @ + 1], "undefined")
    ELSE LET l == [c EXCEPT !.rm.thrown = @ + 1, !.rm.logged = @ + 1]
         IN IF ~AreHeadersSent(l)
              THEN Throw([l EXCEPT !.rm.pc = "idle", !.rm.i = 0, !.rm.raised = c.threw,
                                   !.rm.isEnded = FALSE], c.threw)
              ELSE Return([l EXCEPT !.rm.i = @ + 1], "undefined")

ManagedEndAfterCallback(c) ==
  IF c.threw = "none"
    THEN Return([c EXCEPT !.rm.i = @ + 1], "undefined")
    ELSE LET l == [c EXCEPT !.rm.thrown = @ + 1, !.rm.logged = @ + 1]
         IN IF ~AreHeadersSent(l)
              THEN Throw([l EXCEPT !.rm.pc = "idle", !.rm.i = 0, !.rm.raised = c.threw], c.threw)
              ELSE Return([l EXCEPT !.rm.i = @ + 1], "undefined")

\* After the loop: the terminal write, without arguments when the shim saw a
\* header write.
\* (mutation) the forward that drops the chunk whenever areHeadersSent()
ManagedEndForward_AsksTransport(c) ==
  LET d == IF AreHeadersSent(c) THEN OriginalEnd(c, "undefined") ELSE OriginalEnd(c, c.rm.chunk)
  IN Return([d EXCEPT !.rm.pc = "idle", !.rm.i = 0, !.rm.forwards = @ + 1], "undefined")

ManagedEndForward(c) ==
  LET d == IF c.rm.headersSent THEN OriginalEnd(c, "undefined") ELSE OriginalEnd(c, c.rm.chunk)
  IN Return([d EXCEPT !.rm.pc = "idle", !.rm.i = 0, !.rm.forwards = @ + 1], "undefined")

\* ------------------------------------------------ both guards on one transport
\* Each constructor keeps what res.end and res.writeHead were when it ran and
\* replaces them.  With order "state_first" the ResponseState wrapped the
\* transport and the ResponseManager wrapped that: res.end is the manager's
\* end, whose originalEnd is the ResponseState's, whose originalEnd is the
\* transport's.  With "manager_first" it is the other way round.  res.safeEnd
\* and res.safeWriteHead exist once, as the ResponseState made them.
\* A call that reaches the manager's end stops at its callback loop
\* (rm.pc = "callbacks") and goes on when the loop is over.  stateEnds counts
\* the runs of the ResponseState's end past its own check.
StackedCtx(r, m, t, order) ==
  [rs |-> r, rm |-> m, res |-> t, ret |-> "undefined", threw |-> "none", performed |-> 0,
   order |-> order, stateEnds |-> 0]

InCallbacks(c) == c.rm.pc = "callbacks"

\* (mutation) the ResponseState's res.end without its isEnded check
StackedResEnd_Unguarded(c, chunk) ==
  LET a == MarkEnded([c EXCEPT !.stateEnds = @ + 1])
  IN IF c.order = "manager_first" THEN ManagedEndEnter(a, chunk) ELSE OriginalEnd(a, chunk)

\* The ResponseState's res.end override.
StackedResEnd(c, chunk) ==
  IF c.rs.isEnded
    THEN Return(c, "false")
    ELSE LET a == MarkEnded([c EXCEPT !.stateEnds = @ + 1])
         IN IF c.order = "manager_first" THEN ManagedEndEnter(a, chunk) ELSE OriginalEnd(a, chunk)

\* res.end as the callers find it.
StackedEnd(c, chunk) ==
  IF c.order = "state_first" THEN ManagedEndEnter(c, chunk) ELSE StackedResEnd(c, chunk)

\* callback(): it returns, throws, or ends the response through res.end.
StackedRunCallback(c, b) ==
  CASE b = "returns" -> Return(c, "undefined")
    [] b = "throws" -> Throw(c, "callback_error")
    [] b = "ends" -> Return(StackedEnd([c EXCEPT !.rm.nestedEnds = @ + 1], "undefined"),
                            "undefined")

\* After the manager's loop: its originalEnd, without arguments when the shim
\* saw a header write; the manager's end returns nothing.
StackedManagedEndForward(c) ==
  LET arg == IF c.rm.headersSent THEN "undefined" ELSE c.rm.chunk
      f == [c EXCEPT !.rm.pc = "idle", !.rm.i = 0, !.rm.forwards = @ + 1]
      d == IF c.order = "state_first" THEN StackedResEnd(f, arg) ELSE OriginalEnd(f, arg)
  IN IF d.threw # "none" THEN d ELSE Return(d, "undefined")

\* res.safeEnd, which calls the ResponseState's originalEnd.
StackedResSafeEnd(c, chunk) ==
  IF ~c.rs.isEnded /\ ~c.rs.isDestroyed
    THEN LET a == MarkEnded(c)
         IN IF c.order = "manager_first" THEN ManagedEndEnter(a, chunk) ELSE OriginalEnd(a, chunk)
    ELSE Return(c, "false")

\* ResponseState.safeEnd once this.res.end is back: true, or false if it threw.
StackedSafeEndTail(d) ==
  IF d.threw # "none" THEN Return(d, "false") ELSE Return(d, "true")

\* ResponseState.safeEnd, which calls this.res.end.
StackedSafeEnd(c, chunk) ==
  IF CanWrite(c)
    THEN LET d == StackedEnd(c, chunk)
         IN IF InCallbacks(d) THEN d ELSE StackedSafeEndTail(d)
    ELSE Return(c, "false")

\* res.writeHead as the callers find it: the manager's shim and the
\* ResponseState's override, in the order of attachment, then the transport.
StackedWriteHead(c, status) ==
  LET a == IF c.order = "state_first" THEN [c EXCEPT !.rm.headersSent = TRUE] ELSE c
  IN IF a.rs.isHeadersSent
       THEN Return(a, "false")
       ELSE OriginalWriteHead([a EXCEPT !.rs.isHeadersSent = TRUE, !.rm.headersSent = TRUE], status)

\* res.safeWriteHead, which calls the ResponseState's originalWriteHead.
StackedResSafeWriteHead(c, status) ==
  IF ~c.rs.isHeadersSent /\ ~c.rs.isEnded
    THEN OriginalWriteHead(IF c.order = "manager_first" THEN [c EXCEPT !.rm.headersSent = TRUE] ELSE c,
                           status)
    ELSE Return(c, "false")

\* _performTermination after its safeEnd, and coordinatedTermination up to
\* its await.
StackedTerminationTail(b, fault) ==
  LET m == b.threw = "none" /\ b.rs.isStreaming /\ ~b.rs.streamingCompleted
      d == IF m THEN [b EXCEPT !.rs.streamingCompleted = TRUE] ELSE b
      e == IF d.threw # "none" THEN d
           ELSE IF m /\ fault = "after_mark" THEN Throw(d, "termination_failure")
           ELSE Return(d, "undefined")
  IN Return([e EXCEPT !.rs.terminationLock =
                        IF e.threw = "none" THEN "resolved" ELSE "rejected"],
            "driving")

\* coordinatedTermination, through _performTermination, up to its await or
\* to the manager's callback loop.
StackedCoordinatedTermination(c, reason, fault) ==
  IF c.rs.isTerminationInProgress
    THEN Return(c, "waiting")
    ELSE LET a == [c EXCEPT !.rs.isTerminationInProgress = TRUE,
                            !.rs.terminationReason = reason,
                            !.performed = @ + 1]
             b == IF fault = "before_end" THEN Throw(a, "termination_failure")
                  ELSE IF ~a.rs.isEnded /\ CanWrite(a) THEN StackedSafeEnd(a, "undefined")
                  ELSE a
         IN IF InCallbacks(b) THEN b ELSE StackedTerminationTail(b, fault)

\* What the call that reached the manager's end does once that end is back.
StackedUnwind(d, frame) ==
  CASE frame.kind = "safeEnd" -> StackedSafeEndTail(d)
    [] frame.kind = "termination" -> StackedTerminationTail(StackedSafeEndTail(d), frame.fault)
    [] OTHER -> d

\* ------------------------------------------------------------------ state
\* The fields a ResponseState has after its constructor.
NewResponseState ==
  [isHeadersSent |-> FALSE, isEnded |-> FALSE, isDestroyed |-> FALSE,
   isStreaming |-> FALSE, streamingCompleted |-> FALSE,
   isTerminationInProgress |-> FALSE, terminationLock |-> "resolved",
   terminationReason |-> "null"]

\* createMockResponse({ socket }), with the probes at zero.
CreateMockResponse(sock) ==
  [statusCode |-> 200, headersSent |-> FALSE, writableEnded |-> FALSE,
   socket |-> sock, writeHeadCalls |-> 0, writeCalls |-> 0, lastWrite |-> "none",
   endCalls |-> 0, lastEnd |-> "none", socketDestroyCalls |-> 0]

\* withStreamingErrorBoundary before its handler has settled; headersWereSent
\* records whether isHeadersSent was set when the handler threw.
NewBoundary ==
  [error |-> "none", termination |-> "none", handlerError |-> "none",
   thrown |-> "none", result |-> "none", handlerResult |-> "none",
   headersWereSent |-> FALSE]

NewObs ==
  [opCount |-> 0, ctCalls |-> 0, performCount |-> 0, destroyCalled |-> FALSE,
   resolved |-> FALSE, rejected |-> FALSE, lateStart |-> FALSE,
   swhCalls |-> 0, swhLateTrue |-> FALSE, otherHdr |-> FALSE,
   failedBeforeEnd |-> FALSE, raised |-> "none", lateWrite |-> FALSE,
   afterEnd |-> FALSE]

\* No ResponseManager wraps the transport, and no scenario request runs.
NoManager == [pc |-> "absent"]

NoScenario == [pc |-> "absent"]

\* The request handler runs inside withStreamingErrorBoundary from the start.
Init ==
  /\ rs = NewResponseState
  /\ \E sock \in BOOLEAN : res = CreateMockResponse(sock)
  /\ microtasks = <<>>
  /\ bpc = "handler"
  /\ bctx = NewBoundary
  /\ obs = NewObs
  /\ rm = NoManager
  /\ scn = NoScenario

Here == Ctx(rs, res)

NoteSafeWriteHeaders(o, ret) ==
  [o EXCEPT !.swhCalls = @ + 1, !.swhLateTrue = @ \/ (o.swhCalls >= 1 /\ ret = "true")]

\* One synchronous call of an entry point by handler, timer or listener code;
\* an exception the entry point lets through reaches that caller.
Do(d, o) ==
  /\ obs.opCount < MaxOps
  /\ rs' = d.rs
  /\ res' = d.res
  /\ obs' = [o EXCEPT !.opCount = @ + 1,
                      !.raised = IF d.threw # "none" THEN d.threw ELSE @]
  /\ UNCHANGED <<microtasks, bpc, bctx, rm, scn>>

\* A write attempted on a response that is already ended or destroyed.
NoteWrite(o) == [o EXCEPT !.lateWrite = @ \/ rs.isEnded \/ rs.isDestroyed]

CallResWriteHead ==
  \E status \in Statuses :
    Do(ResWriteHead(Here, status), [obs EXCEPT !.otherHdr = TRUE])

CallResWrite ==
  \E chunk \in DataChunks, ok \in BOOLEAN : Do(ResWrite(Here, chunk, ok), NoteWrite(obs))

CallResEnd ==
  \E chunk \in EndArgs : Do(ResEnd(Here, chunk), obs)

CallResSafeWriteHead ==
  \E status \in Statuses :
    Do(ResSafeWriteHead(Here, status), [obs EXCEPT !.otherHdr = TRUE])

CallResSafeWrite ==
  \E chunk \in DataChunks, ok \in BOOLEAN : Do(ResSafeWrite(Here, chunk, ok), NoteWrite(obs))

CallResSafeEnd ==
  \E chunk \in EndArgs : Do(ResSafeEnd(Here, chunk), obs)

CallMarkStreamingStarted == Do(MarkStreamingStarted(Here), obs)

CallMarkStreamingCompleted == Do(MarkStreamingCompleted(Here), obs)

CallSafeWriteHeaders ==
  \E status \in Statuses :
    LET d == SafeWriteHeaders(Here, status)
    IN Do(d, NoteSafeWriteHeaders(NoteWrite(obs), d.ret))

CallSafeWrite ==
  \E chunk \in DataChunks, ok \in BOOLEAN : Do(SafeWrite(Here, chunk, ok), NoteWrite(obs))

CallSafeEnd ==
  \E chunk \in EndArgs : Do(SafeEnd(Here, chunk), obs)

CallDestroy == Do(Destroy(Here), [obs EXCEPT !.destroyCalled = TRUE])

CallWriteEvent ==
  \E data \in Payloads, eventType \in EventTypes, ok \in BOOLEAN :
    Do(WriteEvent(Here, data, eventType, ok), NoteWrite(obs))

CallWriteDone ==
  \E ok \in BOOLEAN : Do(WriteDone(Here, ok), NoteWrite(obs))

\* The response has ended through normal completion: an end was forwarded,
\* and neither a termination nor destroy() has run.
EndedNormally ==
  /\ rs.isEnded
  /\ res.endCalls = 1
  /\ obs.performCount = 0
  /\ ~rs.isDestroyed

\* ---- coordinatedTermination: the call up to its await, and its continuation
EnterTermination(who, reason, fault) ==
  LET d == CoordinatedTermination(Here, reason, fault)
  IN /\ rs' = d.rs
     /\ res' = d.res
     /\ microtasks' = Append(microtasks,
                             [who |-> who, pc |-> d.ret, awaited |-> d.rs.terminationLock])
     /\ obs' = [obs EXCEPT !.ctCalls = @ + 1,
                           !.performCount = @ + d.performed,
                           !.lateStart = @ \/ obs.resolved \/ obs.rejected,
                           !.failedBeforeEnd = @ \/ (d.performed = 1 /\ fault = "before_end"),
                           !.afterEnd = @ \/ EndedNormally]

CallCoordinatedTermination ==
  \E reason \in Reasons, fault \in Faults :
    /\ obs.ctCalls < MaxCTCalls
    /\ EnterTermination("caller", reason, fault)
    /\ UNCHANGED <<bpc, bctx, rm, scn>>

ResumeCoordinatedTermination ==
  /\ microtasks # <<>>
  /\ Head(microtasks).pc \in {"driving", "waiting"}
  /\ LET e == Head(microtasks)
         n == CoordinatedTerminationResume(rs, e)
     IN /\ rs' = n.rs
        /\ obs' = [obs EXCEPT !.resolved = @ \/ n.outcome = "resolved",
                              !.rejected = @ \/ n.outcome = "rejected"]
        /\ IF e.who = "boundary"
             THEN /\ microtasks' = Append(Tail(microtasks),
                                          [who |-> "boundary", pc |-> "catch", awaited |-> n.outcome])
                  /\ bctx' = [bctx EXCEPT !.termination = n.outcome]
             ELSE /\ microtasks' = Tail(microtasks)
                  /\ UNCHANGED bctx
  /\ UNCHANGED <<res, bpc, rm, scn>>

\* ---- withStreamingErrorBoundary
\* return await fn(responseState): what the boundary resolves with.
BoundaryReturn(v) == v

\* (mutation) a boundary that destroys the response on the way out, as if in a finally
HandlerReturns_ThenDestroys ==
  \E v \in HandlerResults :
    /\ bpc = "handler"
    /\ bpc' = "returned"
    /\ bctx' = [bctx EXCEPT !.result = BoundaryReturn(v), !.handlerResult = v]
    /\ rs' = Destroy(Here).rs
    /\ res' = Destroy(Here).res
    /\ obs' = [obs EXCEPT !.destroyCalled = TRUE]
    /\ UNCHANGED <<microtasks, rm, scn>>

HandlerReturns ==
  \E v \in HandlerResults :
    /\ bpc = "handler"
    /\ bpc' = "returned"
    /\ bctx' = [bctx EXCEPT !.result = BoundaryReturn(v), !.handlerResult = v]
    /\ UNCHANGED <<rs, res, microtasks, obs, rm, scn>>

HandlerThrows ==
  \E fault \in Faults :
    /\ bpc = "handler"
    /\ bpc' = "terminating"
    /\ EnterTermination("boundary", "error_boundary", fault)
    /\ bctx' = [bctx EXCEPT !.error = HandlerError, !.headersWereSent = rs.isHeadersSent]
    /\ UNCHANGED <<rm, scn>>

\* The end of the catch block: handlerError (what the errorHandler raised,
\* if anything) was caught and logged; destroy() runs and error is re-thrown.
\* (mutation) the boundary re-throws the latest error it caught
BoundaryRethrow_Latest(error, handlerError) ==
  IF handlerError # "none" THEN handlerError ELSE error

BoundaryRethrow(error, handlerError) == error

BoundaryFinish(c, o, handlerError) ==
  LET d == Destroy(c)
  IN /\ rs' = d.rs
     /\ res' = d.res
     /\ bpc' = "rethrown"
     /\ bctx' = [bctx EXCEPT !.handlerError = handlerError,
                             !.thrown = BoundaryRethrow(bctx.error, handlerError)]
     /\ obs' = [o EXCEPT !.destroyCalled = TRUE]
     /\ UNCHANGED <<rm, scn>>

\* h is the caller's errorHandler: absent, throwing at once, or returning a
\* promise that settles later (async).
BoundaryAfterTermination ==
  \E ok \in BOOLEAN, h \in ErrorHandlers :
    /\ bpc = "terminating"
    /\ microtasks # <<>>
    /\ Head(microtasks).pc = "catch"
    /\ microtasks' = Tail(microtasks)
    /\ LET d == SendErrorResponse(Here, ok)
           o == IF CanWriteHeaders(Here)
                  THEN NoteSafeWriteHeaders(obs, SafeWriteHeaders(Here, 500).ret)
                  ELSE obs
       IN IF h = "async"
            THEN /\ rs' = d.rs
                 /\ res' = d.res
                 /\ bpc' = "error_handler"
                 /\ obs' = o
                 /\ UNCHANGED <<bctx, rm, scn>>
            ELSE BoundaryFinish(d, o, IF h = "throws" THEN "error_handler_error" ELSE "none")

ErrorHandlerSettles ==
  \E outcome \in Settlements :
    /\ bpc = "error_handler"
    /\ BoundaryFinish(Here, obs, IF outcome = "rejects" THEN "error_handler_error" ELSE "none")
    /\ UNCHANGED microtasks

Next ==
  \/ CallResWriteHead
  \/ CallResWrite
  \/ CallResEnd
  \/ CallResSafeWriteHead
  \/ CallResSafeWrite
  \/ CallResSafeEnd
  \/ CallMarkStreamingStarted
  \/ CallMarkStreamingCompleted
  \/ CallSafeWriteHeaders
  \/ CallSafeWrite
  \/ CallSafeEnd
  \/ CallDestroy
  \/ CallWriteEvent
  \/ CallWriteDone
  \/ CallCoordinatedTermination
  \/ ResumeCoordinatedTermination
  \/ HandlerReturns
  \/ HandlerThrows
  \/ BoundaryAfterTermination
  \/ ErrorHandlerSettles

Spec == Init /\ [][Next]_vars

\* ---- ResponseManager over the transport, without a ResponseState.  The
\* manager may be attached to a response whose headers were already written.
InitManager ==
  /\ rm = NewResponseManager
  /\ \E written \in BOOLEAN :
       res = IF written
               THEN OriginalWriteHead(RMCtx(NewResponseManager, CreateMockResponse(FALSE)), 200).res
               ELSE CreateMockResponse(FALSE)
  /\ rs = NewResponseState
  /\ microtasks = <<>>
  /\ bpc = "handler"
  /\ bctx = NewBoundary
  /\ obs = NewObs
  /\ scn = NoScenario

Managed == RMCtx(rm, res)

DoManaged(d) ==
  /\ rm' = d.rm
  /\ res' = d.res
  /\ UNCHANGED <<rs, microtasks, bpc, bctx, obs, scn>>

\* Middleware code, between two intercepted ends.
CallOnEnd ==
  /\ rm.pc = "idle"
  /\ Len(rm.endCallbacks) < MaxCallbacks
  /\ DoManaged(OnEnd(Managed, Len(rm.endCallbacks) + 1))

CallManagedWriteHead ==
  \E status \in Statuses :
    /\ rm.pc = "idle"
    /\ res.writeHeadCalls < MaxHeadWrites
    /\ DoManaged(ManagedWriteHead(Managed, status))

CallManagedEnd ==
  \E chunk \in ManagedEndArgs :
    /\ rm.pc = "idle"
    /\ rm.endInvocations < MaxEndCalls
    /\ DoManaged(ManagedEndEnter(Managed, chunk))

\* One iteration of the callback loop of the intercepted end.  The for-of
\* loop reads the array's length at every iteration.
CallbackRuns ==
  \E b \in CallbackBehaviours :
    /\ rm.pc = "callbacks"
    /\ rm.i <= Len(rm.endCallbacks)
    /\ b = "ends" => rm.endInvocations < MaxEndCalls
    /\ b = "registers" => Len(rm.endCallbacks) < MaxCallbacks
    /\ b = "writesHead" => res.writeHeadCalls < MaxHeadWrites
    /\ DoManaged(ManagedEndAfterCallback(
         RunCallback([Managed EXCEPT !.rm.runLog = Append(@, rm.endCallbacks[rm.i])], b)))

EndForwards ==
  /\ rm.pc = "callbacks"
  /\ rm.i > Len(rm.endCallbacks)
  /\ DoManaged(ManagedEndForward(Managed))

NextManager ==
  \/ CallOnEnd
  \/ CallManagedWriteHead
  \/ CallManagedEnd
  \/ CallbackRuns
  \/ EndForwards

SpecManager == InitManager /\ [][NextManager]_vars

\* ---- A streaming request racing with its timeout: the handler writes its
\* headers, NumEvents events and the end, awaiting upstream data before each
\* step; the timeout's timer calls coordinatedTermination('timeout') once.
InitTimeout ==
  /\ rs = NewResponseState
  /\ \E sock \in BOOLEAN : res = CreateMockResponse(sock)
  /\ microtasks = <<>>
  /\ bpc = "handler"
  /\ bctx = NewBoundary
  /\ obs = NewObs
  /\ rm = NoManager
  /\ scn = [pc |-> "streaming", handler |-> 0, timer |-> "armed",
            fault |-> "none", writtenAtFire |-> 0]

Streamed(d, o) ==
  /\ rs' = d.rs
  /\ res' = d.res
  /\ obs' = o
  /\ scn' = [scn EXCEPT !.handler = @ + 1]
  /\ UNCHANGED <<microtasks, bpc, bctx, rm>>

HandlerWritesHeaders ==
  \E status \in Statuses :
    /\ scn.pc = "streaming"
    /\ scn.handler = 0
    /\ LET d == SafeWriteHeaders(Here, status)
       IN Streamed(MarkStreamingStarted(d), NoteSafeWriteHeaders(obs, d.ret))

HandlerWritesEvent ==
  \E data \in Payloads, eventType \in EventTypes, ok \in BOOLEAN :
    /\ scn.pc = "streaming"
    /\ scn.handler \in 1..NumEvents
    /\ Streamed(WriteEvent(Here, data, eventType, ok), NoteWrite(obs))

HandlerEnds ==
  /\ scn.pc = "streaming"
  /\ scn.handler = NumEvents + 1
  /\ Streamed(SafeEnd(Here, "undefined"), obs)

TimeoutFires ==
  \E fault \in Faults :
    /\ scn.pc = "streaming"
    /\ scn.timer = "armed"
    /\ EnterTermination("caller", "timeout", fault)
    /\ scn' = [scn EXCEPT !.timer = "fired", !.fault = fault, !.writtenAtFire = res.writeCalls]
    /\ UNCHANGED <<bpc, bctx, rm>>

NextTimeout ==
  \/ HandlerWritesHeaders
  \/ HandlerWritesEvent
  \/ HandlerEnds
  \/ TimeoutFires
  \/ ResumeCoordinatedTermination

SpecTimeout == InitTimeout /\ [][NextTimeout]_vars

\* ---- SafeSSEWriter.writeEvent called once, with any payload and event type,
\* on a response that is fresh, has its headers written, has ended or was
\* destroyed.
StagedResponse(stage, sock) ==
  LET c == Ctx(NewResponseState, CreateMockResponse(sock))
  IN CASE stage = "fresh" -> c
       [] stage = "headers" -> SafeWriteHeaders(c, 200)
       [] stage = "ended" -> SafeEnd(SafeWriteHeaders(c, 200), "undefined")
       [] stage = "destroyed" -> Destroy(c)

InitSSE ==
  /\ \E stage \in ResponseStages :
       /\ rs = StagedResponse(stage, TRUE).rs
       /\ res = StagedResponse(stage, TRUE).res
  /\ \E data \in SSEPayloads, eventType \in SSEEventTypes, ok \in BOOLEAN :
       scn = [pc |-> "sse", data |-> data, eventType |-> eventType, ok |-> ok,
              called |-> FALSE, couldWrite |-> FALSE, ret |-> "undefined"]
  /\ microtasks = <<>>
  /\ bpc = "handler"
  /\ bctx = NewBoundary
  /\ obs = NewObs
  /\ rm = NoManager

SSEWriteEvent ==
  /\ scn.pc = "sse"
  /\ ~scn.called
  /\ LET d == WriteEvent(Here, scn.data, scn.eventType, scn.ok)
     IN /\ rs' = d.rs
        /\ res' = d.res
        /\ scn' = [scn EXCEPT !.called = TRUE, !.couldWrite = CanWrite(Here), !.ret = d.ret]
  /\ UNCHANGED <<microtasks, bpc, bctx, obs, rm>>

NextSSE == SSEWriteEvent

SpecSSE == InitSSE /\ [][NextSSE]_vars

\* ---- The test runner started as `node tests/test-runner.js all`.
InitRunner ==
  /\ scn = [pc |-> "runner", command |-> "all", results |-> <<>>,
            allPassed |-> TRUE, exited |-> FALSE, exitCode |-> 0]
  /\ rs = NewResponseState
  /\ res = CreateMockResponse(FALSE)
  /\ microtasks = <<>>
  /\ bpc = "handler"
  /\ bctx = NewBoundary
  /\ obs = NewObs
  /\ rm = NoManager

\* One iteration of the loop of runAllTests: the suite's result is recorded
\* (with the error, if it threw), and a suite that returns false or throws
\* clears allPassed.
RunSuite(r, outcome) ==
  [r EXCEPT !.results = Append(@, outcome),
            !.allPassed = IF outcome = "passed" THEN @ ELSE FALSE]

\* TestCLI.run, case 'all': the result of runAllTests is awaited and dropped;
\* run() resolves, no process.exit is reached, and the process ends with the
\* exit code of a normal end.
RunAll(r) == [r EXCEPT !.exited = TRUE, !.exitCode = 0]

RunnerRunsSuite ==
  \E outcome \in SuiteOutcomes :
    /\ scn.pc = "runner"
    /\ ~scn.exited
    /\ Len(scn.results) < NumSuites
    /\ scn' = RunSuite(scn, outcome)
    /\ UNCHANGED <<rs, res, microtasks, bpc, bctx, obs, rm>>

RunnerExits ==
  /\ scn.pc = "runner"
  /\ ~scn.exited
  /\ Len(scn.results) = NumSuites
  /\ scn' = RunAll(scn)
  /\ UNCHANGED <<rs, res, microtasks, bpc, bctx, obs, rm>>

NextRunner ==
  \/ RunnerRunsSuite
  \/ RunnerExits

SpecRunner == InitRunner /\ [][NextRunner]_vars

\* ---- a ResponseState and a ResponseManager attached to the same transport,
\* in either order; handler, middleware, timer and listener code call the
\* entry points that end the response, write its head or destroy it.  The
\* middleware registered its callbacks before the handler started.
NoFrame == [kind |-> "none", fault |-> "none"]

InitStacked ==
  /\ \E order \in AttachmentOrders :
       scn = [pc |-> "stacked", order |-> order, stateEnds |-> 0, frame |-> NoFrame]
  /\ rs = NewResponseState
  /\ \E registered \in StackedRegistries :
       rm = [NewResponseManager EXCEPT !.endCallbacks = registered]
  /\ \E sock \in BOOLEAN : res = CreateMockResponse(sock)
  /\ microtasks = <<>>
  /\ bpc = "handler"
  /\ bctx = NewBoundary
  /\ obs = NewObs

Stacked == StackedCtx(rs, rm, res, scn.order)

\* The state after a synchronous stretch d of a call of the given kind: the
\* call is over, or it waits in the manager's callback loop.  A finished
\* coordinatedTermination has queued its continuation.
StackedSettle(d, kind, fault, o) ==
  LET over == ~InCallbacks(d)
  IN /\ rs' = d.rs
     /\ rm' = d.rm
     /\ res' = d.res
     /\ scn' = [scn EXCEPT !.stateEnds = @ + d.stateEnds,
                           !.frame = IF over THEN NoFrame ELSE [kind |-> kind, fault |-> fault]]
     /\ obs' = [o EXCEPT !.raised = IF over /\ d.threw # "none" THEN d.threw ELSE @,
                         !.performCount = @ + d.performed]
     /\ microtasks' = IF over /\ kind = "termination"
                        THEN Append(microtasks, [who |-> "caller", pc |-> d.ret,
                                                 awaited |-> d.rs.terminationLock])
                        ELSE microtasks
     /\ UNCHANGED <<bpc, bctx>>

\* One call of an entry point, from code that is not a callback.
StackedDo(d, kind) ==
  /\ scn.pc = "stacked"
  /\ rm.pc = "idle"
  /\ obs.opCount < MaxOps
  /\ StackedSettle(d, kind, "none", [obs EXCEPT !.opCount = @ + 1])

StackedCallWriteHead ==
  \E status \in Statuses : StackedDo(StackedWriteHead(Stacked, status), "writeHead")

StackedCallResSafeWriteHead ==
  \E status \in Statuses : StackedDo(StackedResSafeWriteHead(Stacked, status), "safeWriteHead")

StackedCallEnd ==
  \E chunk \in ManagedEndArgs : StackedDo(StackedEnd(Stacked, chunk), "end")

StackedCallResSafeEnd ==
  \E chunk \in ManagedEndArgs : StackedDo(StackedResSafeEnd(Stacked, chunk), "resSafeEnd")

StackedCallSafeEnd ==
  \E chunk \in ManagedEndArgs : StackedDo(StackedSafeEnd(Stacked, chunk), "safeEnd")

StackedCallMarkStreamingStarted == StackedDo(MarkStreamingStarted(Stacked), "markStreamingStarted")

StackedCallDestroy == StackedDo(Destroy(Stacked), "destroy")

StackedCallCoordinatedTermination ==
  \E reason \in Reasons, fault \in Faults :
    /\ scn.pc = "stacked"
    /\ rm.pc = "idle"
    /\ obs.ctCalls < MaxCTCalls
    /\ StackedSettle(StackedCoordinatedTermination(Stacked, reason, fault), "termination", fault,
                     [obs EXCEPT !.ctCalls = @ + 1])

\* One iteration of the manager's callback loop; a failure that leaves the
\* loop reaches the call that is waiting for the manager's end.
StackedCallbackRuns ==
  \E b \in StackedBehaviours :
    /\ scn.pc = "stacked"
    /\ rm.pc = "callbacks"
    /\ rm.i <= Len(rm.endCallbacks)
    /\ LET d == ManagedEndAfterCallback(
                  StackedRunCallback([Stacked EXCEPT !.rm.runLog = Append(@, rm.endCallbacks[rm.i])], b))
       IN StackedSettle(IF InCallbacks(d) THEN d ELSE StackedUnwind(d, scn.frame),
                        scn.frame.kind, scn.frame.fault, obs)

StackedEndForwards ==
  /\ scn.pc = "stacked"
  /\ rm.pc = "callbacks"
  /\ rm.i > Len(rm.endCallbacks)
  /\ StackedSettle(StackedUnwind(StackedManagedEndForward(Stacked), scn.frame),
                   scn.frame.kind, scn.frame.fault, obs)

\* A continuation runs when no synchronous call is under way.
StackedResume ==
  /\ rm.pc = "idle"
  /\ ResumeCoordinatedTermination

NextStacked ==
  \/ StackedCallWriteHead
  \/ StackedCallResSafeWriteHead
  \/ StackedCallEnd
  \/ StackedCallResSafeEnd
  \/ StackedCallSafeEnd
  \/ StackedCallMarkStreamingStarted
  \/ StackedCallDestroy
  \/ StackedCallCoordinatedTermination
  \/ StackedCallbackRuns
  \/ StackedEndForwards
  \/ StackedResume

SpecStacked == InitStacked /\ [][NextStacked]_vars

\* The termination protocol with the entry points _performTermination reads
\* the effects of (ended, destroyed, streaming).  The JavaScript engine runs
\* every queued microtask before it returns to the event loop: a continuation
\* at the head of the queue is always run.
NextTermination ==
  \/ CallSafeEnd
  \/ CallDestroy
  \/ CallMarkStreamingStarted
  \/ CallCoordinatedTermination
  \/ ResumeCoordinatedTermination
  \/ HandlerReturns
  \/ HandlerThrows
  \/ BoundaryAfterTermination
  \/ ErrorHandlerSettles

FairSpec ==
  /\ Init
  /\ [][NextTermination]_vars
  /\ WF_vars(ResumeCoordinatedTermination)
  /\ WF_vars(BoundaryAfterTermination)

\* ------------------------------------------------------------------ claims

\* C1: over any interleaving of res.end, res.safeEnd, safeEnd,
\* coordinatedTermination, withStreamingErrorBoundary and destroy, the
\* transport's original end is invoked at most once.
C1_EndAtMostOnce == res.endCalls <= 1

\* The end reached the transport once although two termination episodes, the
\* error boundary and destroy all ran.
C1_Witness ==
  /\ res.endCalls = 1
  /\ obs.performCount >= 2
  /\ bpc = "rethrown"

\* C2: coordinatedTermination calls made concurrently (each begun before any
\* of them has settled) execute _performTermination exactly once; a call that
\* finds isTerminationInProgress set starts no episode; no call settles
\* before _performTermination has completed.
C2_SingleFlight ==
  /\ [](obs.ctCalls >= 1 /\ ~obs.lateStart => obs.performCount = 1)
  /\ [](obs.resolved \/ obs.rejected => obs.performCount >= 1)
  /\ [][rs.isTerminationInProgress => obs'.performCount = obs.performCount]_vars

\* Concurrent calls (a caller and the error boundary) all settled after one
\* _performTermination.
C2_Witness ==
  /\ obs.ctCalls >= 2
  /\ ~obs.lateStart
  /\ obs.performCount = 1
  /\ microtasks = <<>>
  /\ obs.resolved

\* C3: when headers are written through safeWriteHeaders only, the transport's
\* writeHead is invoked at most once, and every safeWriteHeaders call other
\* than the first returns false.
C3_HeadersAtMostOnce ==
  /\ ~obs.otherHdr => res.writeHeadCalls <= 1
  /\ ~obs.swhLateTrue

C3_Witness ==
  /\ obs.swhCalls >= 2
  /\ ~obs.otherHdr
  /\ res.writeHeadCalls = 1

\* C4: a header write is forwarded to the transport only from a state where
\* headersSent, ended and destroyed are all false.
C4_HeaderOnlyWhenWritable ==
  [][res'.writeHeadCalls > res.writeHeadCalls => CanWriteHeaders(Here)]_vars

\* C5: once ended or destroyed, safeWrite, safeWriteHeaders, res.write,
\* res.safeWrite, writeEvent and writeDone return false, throw nothing,
\* forward nothing to the transport and leave every flag as it was.
Refused(d) ==
  /\ d.ret = "false"
  /\ d.threw = "none"
  /\ d.rs = rs
  /\ d.res = res

C5_WriteAfterCloseRefused ==
  rs.isEnded \/ rs.isDestroyed =>
    /\ \A chunk \in DataChunks, ok \in BOOLEAN :
         /\ Refused(SafeWrite(Here, chunk, ok))
         /\ Refused(ResWrite(Here, chunk, ok))
         /\ Refused(ResSafeWrite(Here, chunk, ok))
    /\ \A status \in Statuses : Refused(SafeWriteHeaders(Here, status))
    /\ \A data \in Payloads, eventType \in EventTypes, ok \in BOOLEAN :
         Refused(WriteEvent(Here, data, eventType, ok))
    /\ \A ok \in BOOLEAN : Refused(WriteDone(Here, ok))

\* A write was attempted on the ended response.
C5_Witness ==
  /\ rs.isEnded
  /\ obs.lateWrite
  /\ res.endCalls = 1

\* C6: no guard entry point raises an exception to its caller.
C6_NoExceptionEscapes == obs.raised = "none"

C8_DestroyIsTerminal ==
  obs.destroyCalled => ~CanWrite(Here) /\ ~CanWriteHeaders(Here)

C8_Witness ==
  /\ obs.destroyCalled
  /\ obs.lateWrite
  /\ obs.performCount >= 1
  /\ obs.opCount = MaxOps

\* C9: the connection close (res.socket.destroy) is attempted at most once.
C9_SocketClosedAtMostOnce == res.socketDestroyCalls <= 1

\* C10: when the handler threw, the boundary ends with the response destroyed
\* and ended and re-raises the handler's own error, whatever the termination,
\* the error send and the errorHandler did.
C10_BoundaryRethrows ==
  /\ bpc = "rethrown" =>
       /\ rs.isDestroyed
       /\ rs.isEnded
       /\ bctx.thrown = HandlerError
       /\ bctx.result = "none"
  /\ bctx.thrown # "none" => bpc = "rethrown"
  /\ bctx.error # "none" => bpc \in {"terminating", "error_handler", "rethrown"}

\* The termination rejected, the 500 header write failed on the transport and
\* the errorHandler failed: the handler's error is still the one re-raised.
C10_Witness ==
  /\ bpc = "rethrown"
  /\ bctx.termination = "rejected"
  /\ bctx.handlerError # "none"
  /\ res.writeHeadCalls = 2
  /\ res.statusCode = 200

C12_FailureNotPropagated == ~obs.rejected

\* C13: every termination episode completes, whether or not
\* _performTermination failed: isTerminationInProgress, once set, becomes
\* false again, and every continuation waiting behind a coordinatedTermination
\* call is run (the call settles), so that the queue empties.
C13_EpisodeCompletes ==
  /\ rs.isTerminationInProgress ~> ~rs.isTerminationInProgress
  /\ (microtasks # <<>>) ~> (microtasks = <<>>)

\* A failed episode with a driver and a waiter, both settled, the flag cleared.
C13_Witness ==
  /\ obs.failedBeforeEnd
  /\ obs.ctCalls >= 2
  /\ obs.performCount = 1
  /\ obs.resolved
  /\ ~rs.isTerminationInProgress
  /\ microtasks = <<>>

\* How many times the intercepted end has run callback k.
RunCount(k) == Cardinality({j \in DOMAIN rm.runLog : rm.runLog[j] = k})

\* C14: over any number of invocations of the intercepted end, nested in a
\* callback or one after the other, no callback runs twice and callbacks run
\* in registration order; once the end has gone through, each callback
\* registered before it has run exactly once; every invocation but the first
\* is skipped, and a skipped invocation runs no callback and forwards nothing.
C14_CallbacksOnceInOrder ==
  /\ [](\A k \in 1..Len(rm.endCallbacks) : RunCount(k) <= 1)
  /\ [](\A j \in 1..Len(rm.runLog) : rm.runLog[j] = j)
  /\ [](rm.forwards >= 1 => \A k \in 1..rm.atEnd : RunCount(k) = 1)
  /\ [](rm.endInvocations >= 1 => rm.skipped = rm.endInvocations - 1)
  /\ [](rm.forwards <= 1 /\ res.endCalls = rm.forwards)
  /\ [][rm'.skipped > rm.skipped =>
         /\ res' = res
         /\ rm'.forwards = rm.forwards
         /\ rm.pc = "idle" => rm'.runLog = rm.runLog]_vars

\* Three callbacks ran in order, the end was forwarded once, and a second
\* invocation came.
C14_Witness ==
  /\ rm.atEnd = 3
  /\ rm.runLog = <<1, 2, 3>>
  /\ rm.endInvocations >= 2
  /\ rm.forwards = 1
  /\ rm.pc = "idle"

\* C15: a callback runs only after the manager's ended flag was set and
\* before the terminal write is forwarded; when the terminal write is
\* forwarded, every registered callback has run exactly once.
C15_CallbacksBetweenFlagAndForward ==
  /\ [][rm'.runLog # rm.runLog =>
         /\ rm.isEnded
         /\ rm.forwards = 0 /\ res.endCalls = 0
         /\ rm'.forwards = 0 /\ res'.endCalls = 0]_vars
  /\ [][res'.endCalls > res.endCalls =>
         /\ rm.isEnded
         /\ \A k \in 1..Len(rm.endCallbacks) : RunCount(k) = 1]_vars

\* The terminal write was forwarded after the three callbacks had run.
C15_Witness ==
  /\ rm.forwards = 1
  /\ res.endCalls = 1
  /\ Len(rm.runLog) = 3
  /\ rm.isEnded

\* C16: when a callback throws inside the intercepted end, the failure is
\* re-raised to the caller of end exactly when neither the manager's
\* headersSent nor the transport's is true; otherwise it is logged only, the
\* loop goes on, and the end is forwarded after the remaining callbacks ran.
C16_CallbackFailure ==
  /\ [][rm'.thrown > rm.thrown =>
         /\ rm'.logged = rm.logged + 1
         /\ IF rm'.headersSent \/ res'.headersSent
              THEN rm'.raised = rm.raised /\ rm'.pc = "callbacks" /\ rm'.i = rm.i + 1
              ELSE rm'.raised = "callback_error" /\ rm'.pc = "idle"]_vars
  /\ [](rm.raised = "none" /\ rm.isEnded /\ rm.pc = "idle" =>
         /\ rm.forwards = 1
         /\ \A k \in 1..rm.atEnd : RunCount(k) = 1)
  /\ [](rm.raised # "none" => rm.forwards = 0)

\* A callback failed on a response whose headers only the transport knew to
\* be sent: the failure was logged, the later callbacks ran, the end went out.
C16_Witness ==
  /\ rm.thrown >= 1
  /\ rm.logged >= 1
  /\ ~rm.headersSent
  /\ res.headersSent
  /\ rm.raised = "none"
  /\ rm.forwards = 1
  /\ Len(rm.runLog) = 3

\* C17: once the intercepted end has fired and returned, onEnd adds nothing
\* to the registry, and no callback runs any more.
C17_LateRegistrationIgnored ==
  [][rm.isEnded /\ rm.pc = "idle" =>
       /\ rm'.endCallbacks = rm.endCallbacks
       /\ rm'.runLog = rm.runLog]_vars

\* The streaming request has ended, the timeout has fired and its call settled.
ScenarioDone ==
  /\ scn.pc = "streaming"
  /\ scn.handler = NumEvents + 2
  /\ scn.timer = "fired"
  /\ microtasks = <<>>

NoopOnResponse(d) ==
  /\ d.res = res
  /\ d.rs.isHeadersSent = rs.isHeadersSent
  /\ d.rs.isEnded = rs.isEnded
  /\ d.rs.isDestroyed = rs.isDestroyed
  /\ d.threw = "none"

SettlesResolved(d) ==
  CoordinatedTerminationResume(d.rs, [pc |-> d.ret, awaited |-> d.rs.terminationLock]).outcome
    = "resolved"

C20_DoneFrame ==
  CanWrite(Here) =>
    \A ok \in BOOLEAN :
      LET d == WriteDone(Here, ok)
      IN /\ d.res.writeCalls = res.writeCalls + 1
         /\ d.res.lastWrite = "data: [DONE]\n\n"

\* JSON.stringify of the payloads of SSEPayloads, character by character.
JSONText(p) ==
  CASE p = <<>> -> "{}"
    [] p = <<"id", "1">> -> "{\"id\":\"1\"}"
    [] p = <<"text", "hi">> -> "{\"text\":\"hi\"}"
    [] p = <<"delta", "">> -> "{\"delta\":\"\"}"

\* C21: writeEvent(payload, eventType), when canWrite() holds, forwards
\* exactly one chunk: data: , the JSON text of the payload and two newlines,
\* preceded by event: , the event type and one newline when a (non-empty)
\* event type is given, and by nothing otherwise; when canWrite() does not
\* hold, nothing is forwarded.
C21_EventFrame ==
  scn.pc = "sse" /\ scn.called =>
    IF scn.couldWrite
      THEN /\ res.writeCalls = 1
           /\ res.lastWrite =
                (IF scn.eventType \in {"null", ""} THEN "" ELSE "event: " \o scn.eventType \o "\n")
                  \o "data: " \o JSONText(scn.data) \o "\n\n"
      ELSE res.writeCalls = 0 /\ scn.ret = "false"

\* A named event with a one-property payload went out as one chunk.
C21_Witness ==
  /\ scn.pc = "sse"
  /\ scn.called
  /\ scn.couldWrite
  /\ res.writeCalls = 1
  /\ res.lastWrite = "event: message\ndata: {\"text\":\"hi\"}\n\n"

\* C22: safeWrite returns true whenever canWrite() held and the chunk was
\* forwarded, whatever the transport's write answered, and returns false
\* only when the chunk was not forwarded.
C22_SafeWriteResult ==
  \A chunk \in DataChunks, ok \in BOOLEAN :
    LET d == SafeWrite(Here, chunk, ok)
        forwarded == d.res.writeCalls = res.writeCalls + 1
    IN /\ CanWrite(Here) /\ forwarded => d.ret = "true"
       /\ d.ret = "false" => ~forwarded

\* C23: in every reachable state of a ResponseState, destroyed implies ended.
C23_DestroyedImpliesEnded == rs.isDestroyed => rs.isEnded

\* Destroyed, hence ended, without any end having reached the transport.
C23_Witness ==
  /\ rs.isDestroyed
  /\ rs.isEnded
  /\ res.endCalls = 0
  /\ res.writableEnded = FALSE
  /\ obs.destroyCalled

\* C25: the call that starts a termination episode sets terminationReason to
\* its own reason ('error_boundary' for the boundary, the caller's otherwise),
\* and while the episode is in progress no step changes it, joining calls
\* with another reason included.
C25_FirstReasonWins ==
  /\ [][~rs.isTerminationInProgress /\ rs'.isTerminationInProgress =>
         IF bpc' # bpc THEN rs'.terminationReason = "error_boundary"
                      ELSE rs'.terminationReason \in Reasons]_vars
  /\ [][rs.isTerminationInProgress /\ rs'.isTerminationInProgress =>
         rs'.terminationReason = rs.terminationReason]_vars

\* The boundary joined, with 'error_boundary', the episode a timeout started.
C25_Witness ==
  /\ rs.isTerminationInProgress
  /\ rs.terminationReason = "timeout"
  /\ bpc = "terminating"
  /\ obs.ctCalls = 2
  /\ obs.performCount = 1

\* The response ends in d, which the operation leaves behind.
EndsResponse(d) == ~rs.isEnded /\ d.rs.isEnded

\* C26: when safeEnd, res.safeEnd, res.end or a coordinatedTermination
\* episode ends the response while streaming is set, streamingCompleted is
\* true when the operation has completed.
C26_EndCompletesStreaming ==
  rs.isStreaming =>
    /\ \A chunk \in EndArgs :
         /\ EndsResponse(SafeEnd(Here, chunk)) => SafeEnd(Here, chunk).rs.streamingCompleted
         /\ EndsResponse(ResSafeEnd(Here, chunk)) => ResSafeEnd(Here, chunk).rs.streamingCompleted
         /\ EndsResponse(ResEnd(Here, chunk)) => ResEnd(Here, chunk).rs.streamingCompleted
    /\ \A reason \in AllReasons, fault \in Faults :
         LET d == CoordinatedTermination(Here, reason, fault)
         IN EndsResponse(d) => d.rs.streamingCompleted

\* A streaming response ended by an end entry point, its stream completed.
C26_Witness ==
  /\ rs.isStreaming
  /\ rs.isEnded
  /\ rs.streamingCompleted
  /\ ~rs.isDestroyed
  /\ res.endCalls = 1
  /\ obs.ctCalls = 0
  /\ obs.opCount = 2

\* C27: the test runner run with 'all' exits with code 0 if every suite
\* passed and with code 1 if any suite failed.
C27_ExitCodeTellsResult ==
  scn.pc = "runner" /\ scn.exited =>
    scn.exitCode = IF \A k \in 1..Len(scn.results) : scn.results[k] = "passed" THEN 0 ELSE 1

\* C28: an invocation of the intercepted end made by a callback, inside the
\* first invocation, finds ended already true and returns without effect: it
\* forwards nothing, and no callback runs a second time because of it.
C28_NestedEndIsNoop ==
  /\ [][rm'.nestedEnds > rm.nestedEnds =>
         /\ rm.isEnded /\ rm'.isEnded
         /\ rm'.skipped = rm.skipped + 1
         /\ res' = res
         /\ rm'.forwards = rm.forwards
         /\ rm'.runLog = Append(rm.runLog, rm.endCallbacks[rm.i])
         /\ rm'.pc = "callbacks" /\ rm'.i = rm.i + 1]_vars
  /\ [](rm.nestedEnds >= 1 =>
         /\ \A k \in 1..Len(rm.endCallbacks) : RunCount(k) <= 1
         /\ rm.forwards <= 1 /\ res.endCalls = rm.forwards)

\* The first of three callbacks ended the response again; each callback
\* still ran once and the end went out once.
C28_Witness ==
  /\ rm.nestedEnds >= 1
  /\ rm.runLog = <<1, 2, 3>>
  /\ rm.forwards = 1
  /\ res.endCalls = 1
  /\ rm.skipped = rm.nestedEnds

\* C29: the intercepted end forwards the caller's chunk when the manager's
\* own headersSent is false, whatever the transport's headersSent says, and
\* forwards the terminal write with no argument when its writeHead shim saw a
\* header write.
C29_ChunkForwarding ==
  [][res'.endCalls > res.endCalls =>
       res'.lastEnd = IF rm.headersSent THEN "undefined" ELSE rm.chunk]_vars

\* The transport's headers were sent before the manager was attached: the
\* manager never saw them, and the caller's chunk went out with the end.
C29_Witness ==
  /\ rm.forwards = 1
  /\ res.headersSent
  /\ ~rm.headersSent
  /\ rm.chunk = "bye"
  /\ res.lastEnd = "bye"

\* C30: with a ResponseState and a ResponseManager on one transport, attached
\* in either order, the transport's own end runs at most once whatever mix of
\* res.end, res.safeEnd, ResponseState.safeEnd and coordinatedTermination is
\* called, and so does each guard's intercepted end past its own check.
C30_OneEndThroughBothGuards ==
  scn.pc = "stacked" =>
    /\ res.endCalls <= 1
    /\ scn.stateEnds <= 1
    /\ rm.endInvocations - rm.skipped <= 1
    /\ rm.forwards <= 1

\* Three ending calls were made, a callback ended the response again from
\* inside the manager's end, and the transport was ended through both guards.
C30_Witness ==
  /\ scn.pc = "stacked"
  /\ obs.opCount + obs.ctCalls >= 3
  /\ rm.endInvocations >= 3
  /\ rm.nestedEnds >= 1
  /\ res.endCalls = 1
  /\ scn.stateEnds = 1
  /\ rm.forwards = 1

C31_BoundaryPassesThrough ==
  /\ [][bpc = "handler" /\ bpc' = "returned" =>
          /\ bctx'.result = bctx'.handlerResult
          /\ bctx'.result \in HandlerResults
          /\ rs' = rs
          /\ res' = res
          /\ microtasks' = microtasks
          /\ obs' = obs]_vars
  /\ [][bpc = "returned" => bpc' = "returned" /\ bctx' = bctx]_vars
  /\ [](bpc = "returned" => bctx.error = "none" /\ bctx.thrown = "none")

\* The handler ended its response and returned a value; the boundary returned
\* it and the response is ended once, not destroyed, with no termination run.
C31_Witness ==
  /\ bpc = "returned"
  /\ bctx.result = "handler_result"
  /\ rs.isEnded /\ ~rs.isDestroyed
  /\ res.endCalls = 1
  /\ obs.performCount = 0
  /\ rs.terminationReason = NewResponseState.terminationReason

\* C32: every header write a guard entry point forwards to the transport is
\* recorded in isHeadersSent, so over any calls of res.writeHead,
\* res.safeWriteHead and safeWriteHeaders the transport's own writeHead is
\* invoked at most once.
C32_HeaderWritesRecorded ==
  /\ res.writeHeadCalls >= 1 => rs.isHeadersSent
  /\ res.writeHeadCalls <= 1

\* C33: when the boundary's termination step has completed and no
\* _performTermination failed before its safeEnd, the response is ended and
\* canWriteHeaders() is false when the boundary asks, so the boundary forwards
\* neither the 500 header write nor the error body (nor an end) to the
\* transport, also when the handler threw before any header was sent.
C33_ErrorResponseSkipped ==
  [][bpc = "terminating" /\ bpc' # bpc /\ bctx.termination = "resolved" /\ ~obs.failedBeforeEnd =>
       /\ rs.isEnded
       /\ ~CanWriteHeaders(Here)
       /\ res'.writeHeadCalls = res.writeHeadCalls
       /\ res'.writeCalls = res.writeCalls
       /\ res'.endCalls = res.endCalls]_vars

\* The handler threw before any header was sent, the termination ended the
\* response, and the boundary went on without a header or a body.
C33_Witness ==
  /\ bpc \in {"error_handler", "rethrown"}
  /\ ~bctx.headersWereSent
  /\ bctx.termination = "resolved"
  /\ ~obs.failedBeforeEnd
  /\ rs.terminationReason = "error_boundary"
  /\ res.writeHeadCalls = 0
  /\ res.writeCalls = 0
  /\ res.endCalls = 1

====
